---- MODULE Spec2Model ----
(***************************************************************************)
(* A model of the Artboard component (src/components/Artboard.tsx): the    *)
(* raster canvas, its undo/redo history and the asynchronous image loads   *)
(* that write to it.                                                       *)
(*                                                                         *)
(* React state is modelled per render: an event handler reads the state of *)
(* the latest render, and all the setState calls of one handler or one     *)
(* callback are applied together (automatic batching).  A callback that    *)
(* runs later (an Image onload, the continuation of an await) reads the    *)
(* state its closure captured, so every record of work in flight carries   *)
(* the history and historyIndex of the render that created it.             *)
(*                                                                         *)
(* Coordinates of the 2D path are kept doubled, so that the midpoint       *)
(* (a + b) / 2 of the smoothing code is exact.  Lengths computed by        *)
(* loadPoseImageOntoCanvas are exact fractions <<numerator, denominator>>  *)
(* in lowest terms.                                                        *)
(***************************************************************************)
EXTENDS Integers, Sequences, FiniteSets, TLC

\* ---------------------------------------------------------------- bounds
\* Work that could not be committed within MaxHistory entries is not started.
\* A user's handler that changes history or cursor is taken only while fewer
\* than MaxRestoreLoads restore loads are pending; callbacks are never delayed.
MaxHistory == 3
MaxSegs == 1
MaxRestoreLoads == 1
MaxInFlight == 1
MaxRequests == 2
MaxPolls == 8

\* ------------------------------------------------------ program constants
CanvasWidth == 512
CanvasHeight == 256
BrushSmall == 3
BrushMedium == 8
BrushLarge == 15

InputModes == {"draw", "upload", "prompt"}
BRUSH_SIZES == {BrushSmall, BrushMedium, BrushLarge}
COLORS == <<"#000000", "#EF4444", "#22C55E", "#3B82F6", "#EAB308", "#A855F7">>

\* JavaScript null for errorMessage
Null == "null"
PoseFailedMessage == "Failed to generate the pose from the prompt. Please try again."

\* --------------------------------------------------------- input domains
\* pointer positions (offsetX, offsetY) of mouse-down and mouse-move events
DownPoints == {<<10, 10>>}
MovePoints == {<<20, 20>>}
\* colour buttons the user clicks
BrushColorChoices == {COLORS[1], COLORS[2]}
\* size buttons the user clicks
BrushSizeChoices == {BrushMedium, BrushLarge}
\* texts typed into the prompt field
PromptTexts == {"", "a backflip"}
\* the character pictures the user can pick
CharacterImages == {"character"}
\* what the user can type as the animation prompt
AnimationPrompts == {"", "raises an arm"}
\* what the user can type and pick in the background editor
BackgroundPrompts == {"", "a forest"}
BackgroundImages == {"backdrop"}
\* what the service calls can resolve to and be rejected with
FrameResults == {"frame"}
BackgroundResults == {"frame on background"}
DescribeResults == {"turns to the left"}
VideoResults == {"blob:video"}
ServiceErrors == {[message |-> "quota exceeded", filtered |-> FALSE]}

\* ------------------------------------------------------- exact fractions
RECURSIVE GCD(_, _)
GCD(a, b) == IF b = 0 THEN a ELSE GCD(b, a % b)

Abs(n) == IF n < 0 THEN -n ELSE n

Frac(n, d) ==
    LET g == GCD(Abs(n), Abs(d)) IN <<n \div g, d \div g>>

\* ----------------------------------------------------- the canvas surface
\* A surface is what the bitmap shows: the image pasted on the white
\* background (if any) and the path segments stroked on top of it.
NoImage == [px |-> "none", dx |-> <<0, 1>>, dy |-> <<0, 1>>,
            dw |-> <<0, 1>>, dh |-> <<0, 1>>]

\* context.fillStyle = 'white'; context.fillRect(0, 0, width, height)
Blank == [img |-> NoImage, marks |-> {}]

\* The pixels of a picture that did not come from the canvas: a surface of
\* the picture's own size, covered by its content.
Photo(name, w, h) ==
    [img |-> [px |-> name, dx |-> <<0, 1>>, dy |-> <<0, 1>>,
              dw |-> <<w, 1>>, dh |-> <<h, 1>>],
     marks |-> {}]

\* decodable image files a user can pick in the upload tab
UploadImages == {[width |-> 100, height |-> 200, px |-> Photo("uploadA", 100, 200)]}
\* images the pose service can return (aspect ratio 1:1)
GeneratedImages == {[width |-> 1024, height |-> 1024, px |-> Photo("poseB", 1024, 1024)]}

\* more files for the upload tab: a picture narrower than the canvas whose
\* drawn width is not an integer, two wider ones, one of the canvas size, and
\* a file that is not a picture
ImportFiles ==
    UploadImages \cup
    {[width |-> 100, height |-> 300, px |-> Photo("tall", 100, 300)],
     [width |-> 400, height |-> 100, px |-> Photo("wide", 400, 100)],
     [width |-> 300, height |-> 100, px |-> Photo("wide3", 300, 100)],
     [width |-> CanvasWidth, height |-> CanvasHeight,
      px |-> Photo("photoC", CanvasWidth, CanvasHeight)],
     [width |-> 0, height |-> 0, px |-> Photo("corrupt", 0, 0)]}

\* the browser can decode the file: img.onload fires, otherwise img.onerror
Decodable(img) == img.width > 0 /\ img.height > 0

\* mutant: the export has half the canvas size
toDataURLHalfSize(surface) ==
    [mime |-> "image/png", width |-> CanvasWidth \div 2,
     height |-> CanvasHeight \div 2, data |-> surface]

\* canvas.toDataURL('image/png'): a PNG of the canvas size holding the pixels
toDataURL(surface) ==
    [mime |-> "image/png", width |-> CanvasWidth, height |-> CanvasHeight,
     data |-> surface]

\* new Image(); img.src = url: the decoded picture handed to img.onload
DecodeImage(url) == [width |-> url.width, height |-> url.height, px |-> url.data]

\* context.clearRect(...); context.drawImage(img, 0, 0, canvas.width, canvas.height)
\* for a picture that was exported from a canvas
DrawRestored(img) ==
    IF img.width = CanvasWidth /\ img.height = CanvasHeight
    THEN img.px
    ELSE [img |-> [px |-> "rescaled", dx |-> <<0, 1>>, dy |-> <<0, 1>>,
                   dw |-> <<CanvasWidth, 1>>, dh |-> <<CanvasHeight, 1>>],
          marks |-> {}]

\* mutant: the fitted rectangle is not centred
LetterBoxTopLeft(w, h) ==
    LET fitHeight == CanvasWidth * h > w * CanvasHeight
        dw == IF fitHeight THEN Frac(CanvasHeight * w, h) ELSE <<CanvasWidth, 1>>
        dh == IF fitHeight THEN <<CanvasHeight, 1>> ELSE Frac(CanvasWidth * h, w)
    IN [dw |-> dw, dh |-> dh, dx |-> <<0, 1>>, dy |-> <<0, 1>>]

\* the rectangle loadPoseImageOntoCanvas draws an image of size w x h into
LetterBox(w, h) ==
    LET fitHeight == CanvasWidth * h > w * CanvasHeight   \* canvasAspect > imgAspect
        dw == IF fitHeight THEN Frac(CanvasHeight * w, h) ELSE <<CanvasWidth, 1>>
        dh == IF fitHeight THEN <<CanvasHeight, 1>> ELSE Frac(CanvasWidth * h, w)
    IN [dw |-> dw, dh |-> dh,
        dx |-> Frac(CanvasWidth * dw[2] - dw[1], 2 * dw[2]),
        dy |-> Frac(CanvasHeight * dh[2] - dh[1], 2 * dh[2])]

\* the picture's pixels are its own content from edge to edge
IsRaw(img) ==
    /\ img.px.marks = {}
    /\ img.px.img.dx = <<0, 1>> /\ img.px.img.dy = <<0, 1>>
    /\ img.px.img.dw = <<img.width, 1>> /\ img.px.img.dh = <<img.height, 1>>

\* fillRect white, then drawImage(img, dx, dy, drawWidth, drawHeight): a
\* picture of the canvas size drawn over the whole canvas leaves its own
\* pixels; otherwise the content is resampled into the rectangle
DrawPoseImage(img) ==
    LET r == LetterBox(img.width, img.height)
        unscaled == /\ img.width = CanvasWidth /\ img.height = CanvasHeight
                    /\ r.dx = <<0, 1>> /\ r.dy = <<0, 1>>
                    /\ r.dw = <<CanvasWidth, 1>> /\ r.dh = <<CanvasHeight, 1>>
    IN IF unscaled THEN img.px
       ELSE [img |-> [px |-> IF IsRaw(img) THEN img.px.img.px ELSE "rescaled",
                      dx |-> r.dx, dy |-> r.dy, dw |-> r.dw, dh |-> r.dh],
             marks |-> {}]

\* ------------------------------------------------------------ the 2D path
Twice(p) == <<2 * p[1], 2 * p[2]>>
EmptyPath == [cur |-> <<0, 0>>, segs |-> <<>>]
NoPoint == <<-1, -1>>

\* context.beginPath(); context.moveTo(offsetX, offsetY)
BeginPathAt(p) == [cur |-> Twice(p), segs |-> <<>>]

\* context.lineTo(offsetX, offsetY)
LineTo(path, p) ==
    [cur |-> Twice(p),
     segs |-> Append(path.segs, [op |-> "lineTo", from |-> path.cur,
                                 cp |-> Twice(p), to |-> Twice(p)])]

\* context.quadraticCurveTo(last.x, last.y, midPointX, midPointY)
QuadraticCurveTo(path, last, p) ==
    LET mid == <<last[1] + p[1], last[2] + p[2]>>      \* doubled midpoint
    IN [cur |-> mid,
        segs |-> Append(path.segs, [op |-> "quadraticCurveTo", from |-> path.cur,
                                    cp |-> Twice(last), to |-> mid])]

\* context.stroke(): paints the whole current path with the context's style
Stroke(surface, path, color, width) ==
    [surface EXCEPT !.marks = @ \cup
        {[seg |-> path.segs[i], color |-> color, width |-> width] :
            i \in 1..Len(path.segs)}]

\* ------------------------------------------------------------------ state
VARIABLES
    mode, brushColor, brushSize, isSmoothing,   \* useState: tool settings
    history, historyIndex,                      \* useState: snapshots and cursor
    prompt, isGeneratingPose, errorMessage,     \* useState: prompt tab
    isDrawing, lastPoint,                       \* useState / lastPointRef
    strokeBrush,    \* read by no handler: the brush at the mouse-down of the active stroke
    canvas, path,                               \* the canvas bitmap and its 2D path
    restoreLoads,   \* Image loads started by restoreCanvasFromHistory, oldest first
    poseRequest,    \* the generatePoseFromPrompt call that is awaited, if any
    poseLoads,      \* FileReader reads and Image loads started for a pose image
    app,            \* useState of App
    bgEditor,       \* useState of BackgroundEditor
    requests,       \* the service calls App awaits, oldest first
    videoCall       \* a call of generateVideoFromFrames: where it is and what it holds

\* the state of the Artboard component
artboardVars == <<mode, brushColor, brushSize, isSmoothing, history, historyIndex,
                  prompt, isGeneratingPose, errorMessage, isDrawing, lastPoint,
                  strokeBrush, canvas, path, restoreLoads, poseRequest, poseLoads>>

\* the state of App and of the components it owns besides the Artboard
appVars == <<app, bgEditor, requests, videoCall>>

vars == <<mode, brushColor, brushSize, isSmoothing, history, historyIndex,
          prompt, isGeneratingPose, errorMessage, isDrawing, lastPoint,
          strokeBrush, canvas, path, restoreLoads, poseRequest, poseLoads,
          app, bgEditor, requests, videoCall>>

toolVars == <<brushColor, brushSize, isSmoothing>>
promptVars == <<prompt, isGeneratingPose, errorMessage>>
strokeVars == <<isDrawing, lastPoint, path, strokeBrush>>

NoBrush == [color |-> "none", width |-> 0]

\* history[historyIndex] of the source (the sequence is 1-based here)
At(h, i) == h[i + 1]

\* calls counts the generatePoseFromPrompt calls that are awaited; H, c and
\* reset belong to the newest of them
NoRequest == [active |-> FALSE, calls |-> 0, H |-> <<>>, c |-> -1, reset |-> FALSE]

\* work in flight that will end in loadPoseImageOntoCanvas' img.onload
InFlight == Len(poseLoads) + (IF poseRequest.active THEN 1 ELSE 0)


\* ------------------------------------------------- history (pure helpers)
\* mutant: the cursor is set from the length before pruning
saveStateStaleLength(h, i, surface) ==
    LET newHistory == Append(SubSeq(h, 1, i + 1), toDataURL(surface))
    IN [history |-> newHistory, historyIndex |-> Len(h)]

\* mutant: slice(historyIndex) instead of slice(0, historyIndex + 1)
saveStateSliceFromCursor(h, i, surface) ==
    LET newHistory == Append(SubSeq(h, i + 1, Len(h)), toDataURL(surface))
    IN [history |-> newHistory, historyIndex |-> Len(newHistory) - 1]

\* saveState as written: prune after the cursor it reads, push, move cursor
saveState(h, i, surface) ==
    LET newHistory == Append(SubSeq(h, 1, i + 1), toDataURL(surface))
    IN [history |-> newHistory, historyIndex |-> Len(newHistory) - 1]

\* mutant: the effect loads the newest snapshot instead of the one at the cursor
restoreNewestSnapshot(h, i, loads) ==
    IF Len(h) = 0 \/ i < 0 THEN loads ELSE Append(loads, h[Len(h)])

\* the effect on [historyIndex, restoreCanvasFromHistory]: it starts the load
\* of history[historyIndex]; the pixels are drawn when that load completes.
\* An index past the end reads undefined, which never loads (no onerror is set).
restoreCanvasFromHistory(h, i, loads) ==
    IF Len(h) = 0 \/ i < 0 THEN loads
    ELSE IF i >= Len(h) THEN loads
    ELSE Append(loads, At(h, i))

\* mutant: the white fill is missing, the current pixels become entry 0
initializeCanvasNoFill ==
    [canvas |-> canvas, history |-> <<toDataURL(canvas)>>, historyIndex |-> 0]

\* what initializeCanvas leaves: {surface, history, historyIndex}
initializeCanvas ==
    [canvas |-> Blank, history |-> <<toDataURL(Blank)>>, historyIndex |-> 0]

\* observer field of the awaited request, read by no handler: the canvas was
\* reset while the pose service had not answered yet
MarkReset(r) == IF r.active THEN [r EXCEPT !.reset = TRUE] ELSE r

\* -------------------------------------------------------------- initially
\* The component after mount: the useState defaults, then the mount effect
\* has run initializeCanvas and the restore effect has started its first load.
Init ==
    /\ mode = "draw"
    /\ brushColor = COLORS[1]
    /\ brushSize = BrushMedium
    /\ isSmoothing = TRUE
    /\ prompt = ""
    /\ isGeneratingPose = FALSE
    /\ errorMessage = Null
    /\ isDrawing = FALSE
    /\ lastPoint = NoPoint
    /\ strokeBrush = NoBrush
    /\ path = EmptyPath
    /\ canvas = Blank
    /\ history = <<toDataURL(Blank)>>
    /\ historyIndex = 0
    /\ restoreLoads = restoreCanvasFromHistory(history, historyIndex, <<>>)
    /\ poseRequest = NoRequest
    /\ poseLoads = <<>>
    /\ app = [appState |-> "IDLE", errorMessage |-> Null, loadingMessage |-> "",
              uploadedImage |-> Null, startFrameImage |-> Null,
              endFrameImage |-> Null, generatedVideoUrl |-> Null,
              animationPrompt |-> "", isGeneratingAiPrompt |-> FALSE,
              isBgEditorOpen |-> FALSE, editingFrame |-> Null]
    /\ bgEditor = [mode |-> "prompt", prompt |-> "", uploadedImage |-> Null,
                   isProcessing |-> FALSE]
    /\ requests = <<>>
    /\ videoCall = [pc |-> "idle",
                    operation |-> [done |-> FALSE, error |-> FALSE, uri |-> FALSE],
                    polls |-> 0, outcome |-> ""]

\* ------------------------------------------------------------- operations
\* onClick of a mode tab
SetMode(m) ==
    /\ mode' = m
    /\ UNCHANGED <<appVars, toolVars, history, historyIndex, promptVars, strokeVars,
                   canvas, restoreLoads, poseRequest, poseLoads>>

\* mutant: the mode is not looked at
startDrawingAnyMode(p) ==
    /\ historyIndex + 2 <= MaxHistory
    /\ path' = BeginPathAt(p)
    /\ isDrawing' = TRUE
    /\ lastPoint' = p
    /\ strokeBrush' = [color |-> brushColor, width |-> brushSize]
    /\ UNCHANGED <<appVars, mode, toolVars, history, historyIndex, promptVars,
                   canvas, restoreLoads, poseRequest, poseLoads>>

\* onMouseDown
startDrawing(p) ==
    IF mode # "draw"
    THEN UNCHANGED vars
    ELSE /\ historyIndex + 2 <= MaxHistory
         /\ path' = BeginPathAt(p)
         /\ isDrawing' = TRUE
         /\ lastPoint' = p
         /\ strokeBrush' = [color |-> brushColor, width |-> brushSize]
         /\ UNCHANGED <<appVars, mode, toolVars, history, historyIndex, promptVars,
                        canvas, restoreLoads, poseRequest, poseLoads>>

\* mutant: the pen position is not moved to the new point
drawKeepsLastPoint(p) ==
    IF ~isDrawing \/ lastPoint = NoPoint \/ mode # "draw"
    THEN UNCHANGED vars
    ELSE /\ Len(path.segs) < MaxSegs
         /\ path' = IF isSmoothing THEN QuadraticCurveTo(path, lastPoint, p)
                                   ELSE LineTo(path, p)
         /\ canvas' = Stroke(canvas, path', brushColor, brushSize)
         /\ UNCHANGED <<appVars, mode, toolVars, history, historyIndex, promptVars,
                        isDrawing, lastPoint, strokeBrush, restoreLoads,
                        poseRequest, poseLoads>>

\* onMouseMove
draw(p) ==
    IF ~isDrawing \/ lastPoint = NoPoint \/ mode # "draw"
    THEN UNCHANGED vars
    ELSE /\ Len(path.segs) < MaxSegs
         /\ path' = IF isSmoothing THEN QuadraticCurveTo(path, lastPoint, p)
                                   ELSE LineTo(path, p)
         /\ canvas' = Stroke(canvas, path', brushColor, brushSize)
         /\ lastPoint' = p
         /\ UNCHANGED <<appVars, mode, toolVars, history, historyIndex, promptVars,
                        isDrawing, strokeBrush, restoreLoads, poseRequest,
                        poseLoads>>

\* mutant: a stroke without a segment is not committed
stopDrawingSkipsClick ==
    IF ~isDrawing
    THEN UNCHANGED vars
    ELSE LET s == IF path.segs = <<>>
                  THEN [history |-> history, historyIndex |-> historyIndex]
                  ELSE saveState(history, historyIndex, canvas) IN
         /\ Len(s.history) <= MaxHistory
         /\ Len(restoreLoads) < MaxRestoreLoads
         /\ isDrawing' = FALSE
         /\ lastPoint' = NoPoint
         /\ strokeBrush' = NoBrush
         /\ path' = EmptyPath
         /\ history' = s.history
         /\ historyIndex' = s.historyIndex
         /\ restoreLoads' = IF path.segs = <<>> THEN restoreLoads
                            ELSE restoreCanvasFromHistory(s.history, s.historyIndex,
                                                          restoreLoads)
         /\ UNCHANGED <<appVars, mode, toolVars, promptVars, canvas, poseRequest, poseLoads>>

\* mutant: the isDrawing guard is missing
stopDrawingUnguarded ==
    LET s == saveState(history, historyIndex, canvas) IN
    /\ Len(s.history) <= MaxHistory
    /\ Len(restoreLoads) < MaxRestoreLoads
    /\ isDrawing' = FALSE
    /\ lastPoint' = NoPoint
    /\ strokeBrush' = NoBrush
    /\ path' = EmptyPath
    /\ history' = s.history
    /\ historyIndex' = s.historyIndex
    /\ restoreLoads' = restoreCanvasFromHistory(s.history, s.historyIndex,
                                                restoreLoads)
    /\ UNCHANGED <<appVars, mode, toolVars, promptVars, canvas, poseRequest, poseLoads>>

\* mutant: the stroke ends without saveState
stopDrawingNoCommit ==
    IF ~isDrawing
    THEN UNCHANGED vars
    ELSE /\ isDrawing' = FALSE
         /\ lastPoint' = NoPoint
         /\ strokeBrush' = NoBrush
         /\ path' = EmptyPath
         /\ UNCHANGED <<appVars, mode, toolVars, history, historyIndex, promptVars, canvas,
                        restoreLoads, poseRequest, poseLoads>>

\* onMouseUp / onMouseLeave.  closePath paints nothing and the next stroke
\* starts with beginPath, so the closed path is dropped here.
stopDrawing ==
    IF ~isDrawing
    THEN UNCHANGED vars
    ELSE LET s == saveState(history, historyIndex, canvas) IN
         /\ Len(s.history) <= MaxHistory
         /\ Len(restoreLoads) < MaxRestoreLoads
         /\ isDrawing' = FALSE
         /\ lastPoint' = NoPoint
         /\ strokeBrush' = NoBrush
         /\ path' = EmptyPath
         /\ history' = s.history
         /\ historyIndex' = s.historyIndex
         /\ restoreLoads' = restoreCanvasFromHistory(s.history, s.historyIndex,
                                                     restoreLoads)
         /\ UNCHANGED <<appVars, mode, toolVars, promptVars, canvas, poseRequest, poseLoads>>

\* ArtboardRef.clearCanvas, which is initializeCanvas
artboardRef_clearCanvas ==
    /\ Len(restoreLoads) < MaxRestoreLoads
    /\ canvas' = initializeCanvas.canvas
    /\ history' = initializeCanvas.history
    /\ historyIndex' = initializeCanvas.historyIndex
    /\ restoreLoads' = restoreCanvasFromHistory(initializeCanvas.history,
                                                initializeCanvas.historyIndex,
                                                restoreLoads)
    /\ poseRequest' = MarkReset(poseRequest)
    /\ UNCHANGED <<mode, toolVars, promptVars, strokeVars, poseLoads>>

\* the Clear button
clearCanvas == artboardRef_clearCanvas /\ UNCHANGED appVars

\* mutant: undo also drops the entry it leaves
handleUndoPopping ==
    /\ mode = "draw"
    /\ IF historyIndex > 0
       THEN /\ Len(restoreLoads) < MaxRestoreLoads
            /\ historyIndex' = historyIndex - 1
            /\ history' = SubSeq(history, 1, historyIndex)
            /\ restoreLoads' = restoreCanvasFromHistory(history', historyIndex',
                                                        restoreLoads)
            /\ UNCHANGED <<appVars, mode, toolVars, promptVars, strokeVars,
                           canvas, poseRequest, poseLoads>>
       ELSE UNCHANGED vars

\* mutant: the guard is historyIndex >= 0
handleUndoOffByOne ==
    /\ mode = "draw"
    /\ IF historyIndex >= 0
       THEN /\ Len(restoreLoads) < MaxRestoreLoads
            /\ historyIndex' = historyIndex - 1
            /\ restoreLoads' = restoreCanvasFromHistory(history, historyIndex',
                                                        restoreLoads)
            /\ UNCHANGED <<appVars, mode, toolVars, history, promptVars, strokeVars,
                           canvas, poseRequest, poseLoads>>
       ELSE UNCHANGED vars

\* mutant: the Undo button is also disabled on the second entry
UndoDisabledAtOne == historyIndex <= 1

\* the disabled attribute of the Undo button
UndoDisabled == historyIndex <= 0

\* the disabled attribute of the Redo button
RedoDisabled == historyIndex >= Len(history) - 1

\* the Undo button (rendered in the draw tab)
handleUndo ==
    /\ mode = "draw"
    /\ IF historyIndex > 0
       THEN /\ Len(restoreLoads) < MaxRestoreLoads
            /\ historyIndex' = historyIndex - 1
            /\ restoreLoads' = restoreCanvasFromHistory(history, historyIndex',
                                                        restoreLoads)
            /\ UNCHANGED <<appVars, mode, toolVars, history, promptVars, strokeVars,
                           canvas, poseRequest, poseLoads>>
       ELSE UNCHANGED vars

\* mutant: the guard is historyIndex <= history.length - 1
handleRedoOffByOne ==
    /\ mode = "draw"
    /\ IF historyIndex <= Len(history) - 1
       THEN /\ Len(restoreLoads) < MaxRestoreLoads
            /\ historyIndex' = historyIndex + 1
            /\ restoreLoads' = restoreCanvasFromHistory(history, historyIndex',
                                                        restoreLoads)
            /\ UNCHANGED <<appVars, mode, toolVars, history, promptVars, strokeVars,
                           canvas, poseRequest, poseLoads>>
       ELSE UNCHANGED vars

\* the Redo button (rendered in the draw tab)
handleRedo ==
    /\ mode = "draw"
    /\ IF historyIndex < Len(history) - 1
       THEN /\ Len(restoreLoads) < MaxRestoreLoads
            /\ historyIndex' = historyIndex + 1
            /\ restoreLoads' = restoreCanvasFromHistory(history, historyIndex',
                                                        restoreLoads)
            /\ UNCHANGED <<appVars, mode, toolVars, history, promptVars, strokeVars,
                           canvas, poseRequest, poseLoads>>
       ELSE UNCHANGED vars

\* img.onload of restoreCanvasFromHistory: clearRect, drawImage at full size
restoreOnload ==
    /\ restoreLoads # <<>>
    /\ canvas' = DrawRestored(DecodeImage(Head(restoreLoads)))
    /\ restoreLoads' = Tail(restoreLoads)
    /\ UNCHANGED <<appVars, mode, toolVars, history, historyIndex, promptVars, strokeVars,
                   poseRequest, poseLoads>>


\* onChange of the prompt input (rendered in the prompt tab)
setPrompt(t) ==
    /\ mode = "prompt"
    /\ prompt' = t
    /\ UNCHANGED <<appVars, mode, toolVars, history, historyIndex, isGeneratingPose,
                   errorMessage, strokeVars, canvas, restoreLoads, poseRequest,
                   poseLoads>>

\* mutant: neither the button nor the handler looks at the prompt
handleGeneratePoseAnyPrompt ==
    /\ mode = "prompt"
    /\ ~isGeneratingPose
    /\ Len(poseLoads) < MaxInFlight
    /\ historyIndex + 2 <= MaxHistory
    /\ isGeneratingPose' = TRUE
    /\ errorMessage' = Null
    /\ poseRequest' = [active |-> TRUE, calls |-> poseRequest.calls + 1,
                       H |-> history, c |-> historyIndex, reset |-> FALSE]
    /\ UNCHANGED <<appVars, mode, toolVars, history, historyIndex, prompt,
                   strokeVars, canvas, restoreLoads, poseLoads>>

\* mutant: the button is not disabled while isGeneratingPose
handleGeneratePoseNotDisabled ==
    /\ mode = "prompt"
    /\ ~(prompt = "")
    /\ IF prompt = ""
       THEN UNCHANGED vars
       ELSE /\ Len(poseLoads) < MaxInFlight
            /\ historyIndex + 2 <= MaxHistory
            /\ isGeneratingPose' = TRUE
            /\ errorMessage' = Null
            /\ poseRequest' = [active |-> TRUE, calls |-> poseRequest.calls + 1,
                               H |-> history, c |-> historyIndex, reset |-> FALSE]
            /\ UNCHANGED <<appVars, mode, toolVars, history, historyIndex, prompt,
                           strokeVars, canvas, restoreLoads, poseLoads>>

\* the Generate Pose button: rendered in the prompt tab, disabled while
\* isGeneratingPose or with an empty prompt.  The awaiting handler keeps the
\* loadPoseImageOntoCanvas, hence the saveState, of the render it was made in.
handleGeneratePose ==
    /\ mode = "prompt"
    /\ ~(isGeneratingPose \/ prompt = "")
    /\ IF prompt = ""
       THEN UNCHANGED vars
       ELSE /\ Len(poseLoads) < MaxInFlight
            /\ historyIndex + 2 <= MaxHistory
            /\ isGeneratingPose' = TRUE
            /\ errorMessage' = Null
            /\ poseRequest' = [active |-> TRUE, calls |-> poseRequest.calls + 1,
                               H |-> history, c |-> historyIndex, reset |-> FALSE]
            /\ UNCHANGED <<appVars, mode, toolVars, history, historyIndex, prompt,
                           strokeVars, canvas, restoreLoads, poseLoads>>

\* one awaited call has settled
AfterSettled(r) == IF r.calls > 1 THEN [r EXCEPT !.calls = @ - 1] ELSE NoRequest

\* generatePoseFromPrompt resolved: loadPoseImageOntoCanvas(resultImage)
\* starts the Image load, then the finally block runs
poseResolved(img) ==
    /\ poseRequest.active
    /\ poseLoads' = Append(poseLoads,
                           [stage |-> "decode", origin |-> "prompt", img |-> img,
                            H |-> poseRequest.H, c |-> poseRequest.c,
                            reset |-> poseRequest.reset])
    /\ poseRequest' = AfterSettled(poseRequest)
    /\ isGeneratingPose' = FALSE
    /\ UNCHANGED <<appVars, mode, toolVars, history, historyIndex, prompt, errorMessage,
                   strokeVars, canvas, restoreLoads>>

\* mutant: the flag is cleared in the try block only
poseRejectedKeepsFlag ==
    /\ poseRequest.active
    /\ errorMessage' = PoseFailedMessage
    /\ poseRequest' = AfterSettled(poseRequest)
    /\ UNCHANGED <<appVars, mode, toolVars, history, historyIndex, prompt, isGeneratingPose,
                   strokeVars, canvas, restoreLoads, poseLoads>>

\* mutant: the catch block does not set the error message
poseRejectedSilent ==
    /\ poseRequest.active
    /\ poseRequest' = AfterSettled(poseRequest)
    /\ isGeneratingPose' = FALSE
    /\ UNCHANGED <<appVars, mode, toolVars, history, historyIndex, prompt, errorMessage,
                   strokeVars, canvas, restoreLoads, poseLoads>>

\* generatePoseFromPrompt threw: the catch block, then the finally block
poseRejected ==
    /\ poseRequest.active
    /\ errorMessage' = PoseFailedMessage
    /\ poseRequest' = AfterSettled(poseRequest)
    /\ isGeneratingPose' = FALSE
    /\ UNCHANGED <<appVars, mode, toolVars, history, historyIndex, prompt, strokeVars,
                   canvas, restoreLoads, poseLoads>>

\* onChange of the file input (rendered in the upload tab): starts a FileReader
handlePoseUpload(file) ==
    /\ mode = "upload"
    /\ InFlight < MaxInFlight
    /\ historyIndex + 2 <= MaxHistory
    /\ poseLoads' = Append(poseLoads,
                           [stage |-> "read", origin |-> "upload", img |-> file,
                            H |-> history, c |-> historyIndex, reset |-> FALSE])
    /\ UNCHANGED <<appVars, mode, toolVars, history, historyIndex, promptVars, strokeVars,
                   canvas, restoreLoads, poseRequest>>

\* reader.onloadend: loadPoseImageOntoCanvas(reader.result) starts the Image load
readerLoadEnd(k) ==
    /\ k \in 1..Len(poseLoads)
    /\ poseLoads[k].stage = "read"
    /\ poseLoads' = [poseLoads EXCEPT ![k].stage = "decode"]
    /\ UNCHANGED <<appVars, mode, toolVars, history, historyIndex, promptVars, strokeVars,
                   canvas, restoreLoads, poseRequest>>

RemoveAt(q, k) == SubSeq(q, 1, k - 1) \o SubSeq(q, k + 1, Len(q))

\* img.onload of loadPoseImageOntoCanvas: white fill, letterboxed drawImage,
\* then the saveState of the render that started the work
poseImageOnload(k) ==
    /\ k \in 1..Len(poseLoads)
    /\ poseLoads[k].stage = "decode"
    /\ Decodable(poseLoads[k].img)
    /\ LET r == poseLoads[k]
           surface == DrawPoseImage(r.img)
           s == saveState(r.H, r.c, surface)
       IN /\ Len(s.history) <= MaxHistory
          /\ canvas' = surface
          /\ history' = s.history
          /\ historyIndex' = s.historyIndex
          /\ restoreLoads' = restoreCanvasFromHistory(s.history, s.historyIndex,
                                                      restoreLoads)
    /\ poseLoads' = RemoveAt(poseLoads, k)
    /\ UNCHANGED <<appVars, mode, toolVars, promptVars, strokeVars, poseRequest>>

\* onClick of a colour button (rendered in the draw tab); the brush effect
\* copies the colour into context.strokeStyle after the render
setBrushColor(c) ==
    /\ mode = "draw"
    /\ brushColor' = c
    /\ UNCHANGED <<appVars, mode, brushSize, isSmoothing, history, historyIndex, promptVars,
                   strokeVars, canvas, restoreLoads, poseRequest, poseLoads>>

\* onClick of a size button (rendered in the draw tab); the brush effect
\* copies the size into context.lineWidth after the render
setBrushSize(z) ==
    /\ mode = "draw"
    /\ brushSize' = z
    /\ UNCHANGED <<appVars, mode, brushColor, isSmoothing, history, historyIndex, promptVars,
                   strokeVars, canvas, restoreLoads, poseRequest, poseLoads>>

\* the error event of loadPoseImageOntoCanvas' Image: no onerror handler is
\* set, so the load ends and nothing else happens
poseImageOnerror(k) ==
    /\ k \in 1..Len(poseLoads)
    /\ poseLoads[k].stage = "decode"
    /\ ~Decodable(poseLoads[k].img)
    /\ poseLoads' = RemoveAt(poseLoads, k)
    /\ UNCHANGED <<appVars, mode, toolVars, history, historyIndex, promptVars, strokeVars,
                   canvas, restoreLoads, poseRequest>>

\* getImageData of the ArtboardRef, saved by the host as a file
ExportedFile == DecodeImage(toDataURL(canvas))

\* ------------------------------------------------------------------ App
AppStates == {"IDLE", "GENERATING_IMAGE", "GENERATING_VIDEO", "IMAGE_READY",
              "VIDEO_READY", "ERROR"}

MissingInputsMessage == "Please upload a character image and draw a pose first."
MissingPromptMessage == "A start frame and an animation prompt are required."
SafetyMessage == "The request was blocked due to the AI's safety filters."

getFriendlyErrorMessage(error) ==
    IF error.filtered THEN SafetyMessage
    ELSE IF error.message = "" THEN "An unknown error occurred."
    ELSE error.message

\* mutant: the export is the committed snapshot at the cursor
getImageDataFromHistory == At(history, historyIndex)

\* ArtboardRef.getImageData: the canvas is mounted, so the encoding is never ''
getImageData == toDataURL(canvas)

\* the poseImage field of a call that sends no pose
NoPoseImage == [mime |-> "none", width |-> 0, height |-> 0, data |-> Blank]

\* a service call App awaits: which call, the frame its continuation was
\* created for (isGeneratingStartFrame, editingFrame of that render) and the
\* pose image that was sent. reset is read by no handler: it records that
\* Start Over was pressed since the call was made.
Request(kind, frame, poseImage) ==
    [kind |-> kind, frame |-> frame, poseImage |-> poseImage, reset |-> FALSE]

\* the awaited calls after Start Over: none is cancelled
OutlivingReset(rs) == [k \in 1..Len(rs) |-> [rs[k] EXCEPT !.reset = TRUE]]

isLoading == app.appState \in {"GENERATING_IMAGE", "GENERATING_VIDEO"}

isGenerateButtonDisabled ==
    \/ isLoading
    \/ app.uploadedImage = Null
    \/ app.endFrameImage # Null
    \/ app.isBgEditorOpen

\* the Loader and the open editor are fixed full-page layers over the page:
\* the pointer does not reach the canvas under them. They disable no
\* control: the buttons under them stay in the tab order.
Covered == isLoading \/ app.isBgEditorOpen

\* the prompt box and its two buttons are rendered by ResultDisplay
PromptPanelRendered ==
    /\ app.startFrameImage # Null
    /\ app.endFrameImage # Null
    /\ app.generatedVideoUrl = Null

\* ImageUploader: reader.onloadend hands the picture to setUploadedImage
onImageUpload(img) ==
    /\ app' = [app EXCEPT !.uploadedImage = img]
    /\ UNCHANGED <<artboardVars, bgEditor, requests>>
    /\ UNCHANGED videoCall

\* mutant: Start Over leaves the Artboard as it is
handleResetKeepsCanvas ==
    /\ app' = [app EXCEPT !.appState = "IDLE",
                          !.errorMessage = Null,
                          !.uploadedImage = Null,
                          !.startFrameImage = Null,
                          !.endFrameImage = Null,
                          !.generatedVideoUrl = Null,
                          !.animationPrompt = "",
                          !.isBgEditorOpen = FALSE,
                          !.editingFrame = Null]
    /\ requests' = OutlivingReset(requests)
    /\ UNCHANGED <<artboardVars, bgEditor>>
    /\ UNCHANGED videoCall

\* the Start Over button
handleReset ==
    /\ app' = [app EXCEPT !.appState = "IDLE",
                          !.errorMessage = Null,
                          !.uploadedImage = Null,
                          !.startFrameImage = Null,
                          !.endFrameImage = Null,
                          !.generatedVideoUrl = Null,
                          !.animationPrompt = "",
                          !.isBgEditorOpen = FALSE,
                          !.editingFrame = Null]
    /\ artboardRef_clearCanvas
    /\ requests' = OutlivingReset(requests)
    /\ UNCHANGED bgEditor
    /\ UNCHANGED videoCall

\* the Generate Start Frame / Generate End Frame button, up to the await
handleFrameGeneration ==
    /\ ~isGenerateButtonDisabled
    /\ LET poseImage == getImageData
           isGeneratingStartFrame == app.startFrameImage = Null IN
       IF app.uploadedImage = Null
       THEN /\ app' = [app EXCEPT !.errorMessage = MissingInputsMessage,
                                  !.appState = "ERROR"]
            /\ UNCHANGED requests
       ELSE /\ Len(requests) < MaxRequests
            /\ app' = [app EXCEPT
                         !.loadingMessage = IF isGeneratingStartFrame
                                            THEN "Generating Start Frame..."
                                            ELSE "Generating End Frame...",
                         !.appState = "GENERATING_IMAGE",
                         !.errorMessage = Null,
                         !.generatedVideoUrl = IF isGeneratingStartFrame THEN Null ELSE @,
                         !.animationPrompt = IF isGeneratingStartFrame THEN "" ELSE @]
            /\ requests' = Append(requests,
                                  Request("frame",
                                          IF isGeneratingStartFrame THEN "start" ELSE "end",
                                          poseImage))
    /\ UNCHANGED <<artboardVars, bgEditor>>
    /\ UNCHANGED videoCall

\* BackgroundEditor's effect on isOpen, run when the editor goes from closed
\* to open
EditorOpened(wasOpen, e) ==
    IF wasOpen THEN e
    ELSE [e EXCEPT !.prompt = "", !.uploadedImage = Null, !.isProcessing = FALSE]

\* editImageWithPose resolved: the rest of the try block of handleFrameGeneration
frameResolved(k, img) ==
    /\ k \in 1..Len(requests)
    /\ requests[k].kind = "frame"
    /\ app' = [app EXCEPT
                 !.startFrameImage = IF requests[k].frame = "start" THEN img ELSE @,
                 !.endFrameImage = IF requests[k].frame = "end" THEN img ELSE @,
                 !.editingFrame = requests[k].frame,
                 !.isBgEditorOpen = TRUE,
                 !.appState = "IDLE"]
    /\ bgEditor' = EditorOpened(app.isBgEditorOpen, bgEditor)
    /\ requests' = RemoveAt(requests, k)
    /\ UNCHANGED artboardVars
    /\ UNCHANGED videoCall

\* mutant: the catch block does not leave the loading state
frameRejectedKeepsLoading(k, error) ==
    /\ k \in 1..Len(requests)
    /\ requests[k].kind = "frame"
    /\ app' = [app EXCEPT !.errorMessage = getFriendlyErrorMessage(error)]
    /\ requests' = RemoveAt(requests, k)
    /\ UNCHANGED <<artboardVars, bgEditor>>
    /\ UNCHANGED videoCall

\* editImageWithPose rejected: the catch block of handleFrameGeneration
frameRejected(k, error) ==
    /\ k \in 1..Len(requests)
    /\ requests[k].kind = "frame"
    /\ app' = [app EXCEPT !.errorMessage = getFriendlyErrorMessage(error),
                          !.appState = "ERROR"]
    /\ requests' = RemoveAt(requests, k)
    /\ UNCHANGED <<artboardVars, bgEditor>>
    /\ UNCHANGED videoCall

\* the tabs of the background editor
editorSetMode(m) ==
    /\ app.isBgEditorOpen
    /\ bgEditor' = [bgEditor EXCEPT !.mode = m]
    /\ UNCHANGED <<artboardVars, app, requests>>
    /\ UNCHANGED videoCall

\* the text box of the background editor
editorSetPrompt(t) ==
    /\ app.isBgEditorOpen
    /\ bgEditor.mode = "prompt"
    /\ bgEditor' = [bgEditor EXCEPT !.prompt = t]
    /\ UNCHANGED <<artboardVars, app, requests>>
    /\ UNCHANGED videoCall

\* the file input of the background editor, with its reader.onloadend
editorHandleFileChange(img) ==
    /\ app.isBgEditorOpen
    /\ bgEditor.mode = "upload"
    /\ bgEditor' = [bgEditor EXCEPT !.uploadedImage = img]
    /\ UNCHANGED <<artboardVars, app, requests>>
    /\ UNCHANGED videoCall

isSubmitDisabled ==
    \/ bgEditor.isProcessing
    \/ bgEditor.mode = "upload" /\ bgEditor.uploadedImage = Null
    \/ bgEditor.mode = "prompt" /\ bgEditor.prompt = ""

\* the Apply Background button: handleSubmit of the editor calls
\* handleBackgroundUpdate of App, up to its await. Without a frame to update
\* handleBackgroundUpdate returns at once and isProcessing is back to false
\* in the same task.
handleSubmit ==
    /\ app.isBgEditorOpen
    /\ ~isSubmitDisabled
    /\ LET frameToUpdate == IF app.editingFrame = "start" THEN app.startFrameImage
                            ELSE app.endFrameImage IN
       IF frameToUpdate = Null
       THEN UNCHANGED <<app, bgEditor, requests>>
       ELSE /\ Len(requests) < MaxRequests
            /\ app' = [app EXCEPT !.errorMessage = Null,
                                  !.loadingMessage = "Updating background...",
                                  !.appState = "GENERATING_IMAGE",
                                  !.isBgEditorOpen = FALSE]
            /\ bgEditor' = [bgEditor EXCEPT !.isProcessing = TRUE]
            /\ requests' = Append(requests,
                                  Request("background", app.editingFrame, NoPoseImage))
    /\ UNCHANGED artboardVars
    /\ UNCHANGED videoCall

\* changeBackgroundImage resolved: the try and finally blocks of
\* handleBackgroundUpdate, with the editingFrame of the render that made the
\* call, then the rest of handleSubmit
backgroundResolved(k, img) ==
    /\ k \in 1..Len(requests)
    /\ requests[k].kind = "background"
    /\ app' = [app EXCEPT
                 !.startFrameImage = IF requests[k].frame = "start" THEN img ELSE @,
                 !.endFrameImage = IF requests[k].frame = "start" THEN @ ELSE img,
                 !.editingFrame = Null,
                 !.appState = "IMAGE_READY"]
    /\ IF requests[k].frame = "start"
       THEN artboardRef_clearCanvas
       ELSE UNCHANGED artboardVars
    /\ bgEditor' = [bgEditor EXCEPT !.isProcessing = FALSE]
    /\ requests' = RemoveAt(requests, k)
    /\ UNCHANGED videoCall

\* mutant: there is no finally block
backgroundRejectedStaysError(k, error) ==
    /\ k \in 1..Len(requests)
    /\ requests[k].kind = "background"
    /\ app' = [app EXCEPT !.errorMessage = getFriendlyErrorMessage(error),
                          !.appState = "ERROR"]
    /\ bgEditor' = [bgEditor EXCEPT !.isProcessing = FALSE]
    /\ requests' = RemoveAt(requests, k)
    /\ UNCHANGED artboardVars
    /\ UNCHANGED videoCall

\* changeBackgroundImage rejected: the catch and finally blocks; the state
\* set in finally is the one that is rendered
backgroundRejected(k, error) ==
    /\ k \in 1..Len(requests)
    /\ requests[k].kind = "background"
    /\ app' = [app EXCEPT !.errorMessage = getFriendlyErrorMessage(error),
                          !.editingFrame = Null,
                          !.appState = "IMAGE_READY"]
    /\ bgEditor' = [bgEditor EXCEPT !.isProcessing = FALSE]
    /\ requests' = RemoveAt(requests, k)
    /\ UNCHANGED artboardVars
    /\ UNCHANGED videoCall

\* mutant: closing the editor never clears the Artboard
handleCloseBgEditorKeepsCanvas ==
    /\ app.isBgEditorOpen
    /\ app' = [app EXCEPT !.isBgEditorOpen = FALSE,
                          !.editingFrame = Null,
                          !.appState = "IMAGE_READY"]
    /\ UNCHANGED <<artboardVars, bgEditor, requests>>
    /\ UNCHANGED videoCall

\* the close and Keep Original buttons of the editor
handleCloseBgEditor ==
    /\ app.isBgEditorOpen
    /\ IF app.editingFrame = "start"
       THEN artboardRef_clearCanvas
       ELSE UNCHANGED artboardVars
    /\ app' = [app EXCEPT !.isBgEditorOpen = FALSE,
                          !.editingFrame = Null,
                          !.appState = "IMAGE_READY"]
    /\ UNCHANGED <<bgEditor, requests>>
    /\ UNCHANGED videoCall

\* the animation prompt box
onAnimationPromptChange(t) ==
    /\ PromptPanelRendered
    /\ app' = [app EXCEPT !.animationPrompt = t]
    /\ UNCHANGED <<artboardVars, bgEditor, requests>>
    /\ UNCHANGED videoCall

\* the Generate AI Suggestion button, up to the await
handleGenerateAiPrompt ==
    /\ PromptPanelRendered
    /\ ~app.isGeneratingAiPrompt
    /\ Len(requests) < MaxRequests
    /\ app' = [app EXCEPT !.isGeneratingAiPrompt = TRUE, !.errorMessage = Null]
    /\ requests' = Append(requests, Request("describe", Null, NoPoseImage))
    /\ UNCHANGED <<artboardVars, bgEditor>>
    /\ UNCHANGED videoCall

\* describeAnimationBetweenFrames resolved
describeResolved(k, text) ==
    /\ k \in 1..Len(requests)
    /\ requests[k].kind = "describe"
    /\ app' = [app EXCEPT !.animationPrompt = text, !.isGeneratingAiPrompt = FALSE]
    /\ requests' = RemoveAt(requests, k)
    /\ UNCHANGED <<artboardVars, bgEditor>>
    /\ UNCHANGED videoCall

\* describeAnimationBetweenFrames rejected
describeRejected(k, error) ==
    /\ k \in 1..Len(requests)
    /\ requests[k].kind = "describe"
    /\ app' = [app EXCEPT !.errorMessage = getFriendlyErrorMessage(error),
                          !.appState = "ERROR",
                          !.isGeneratingAiPrompt = FALSE]
    /\ requests' = RemoveAt(requests, k)
    /\ UNCHANGED <<artboardVars, bgEditor>>
    /\ UNCHANGED videoCall

\* the Animate It! button, up to the await
handleVideoGeneration ==
    /\ PromptPanelRendered
    /\ ~(app.appState = "GENERATING_VIDEO" \/ app.animationPrompt = "")
    /\ IF app.startFrameImage = Null \/ app.animationPrompt = ""
       THEN /\ app' = [app EXCEPT !.errorMessage = MissingPromptMessage,
                                  !.appState = "ERROR"]
            /\ UNCHANGED requests
       ELSE /\ Len(requests) < MaxRequests
            /\ app' = [app EXCEPT
                         !.loadingMessage = "Generating animation from prompt...",
                         !.appState = "GENERATING_VIDEO",
                         !.errorMessage = Null]
            /\ requests' = Append(requests, Request("video", Null, NoPoseImage))
    /\ UNCHANGED <<artboardVars, bgEditor>>
    /\ UNCHANGED videoCall

\* generateVideoFromFrames resolved
videoResolved(k, url) ==
    /\ k \in 1..Len(requests)
    /\ requests[k].kind = "video"
    /\ app' = [app EXCEPT !.generatedVideoUrl = url, !.appState = "VIDEO_READY"]
    /\ requests' = RemoveAt(requests, k)
    /\ UNCHANGED <<artboardVars, bgEditor>>
    /\ UNCHANGED videoCall

\* mutant: a failure drops the video that is shown
videoRejectedClearsUrl(k, error) ==
    /\ k \in 1..Len(requests)
    /\ requests[k].kind = "video"
    /\ app' = [app EXCEPT !.errorMessage = getFriendlyErrorMessage(error),
                          !.generatedVideoUrl = Null,
                          !.appState = "ERROR"]
    /\ requests' = RemoveAt(requests, k)
    /\ UNCHANGED <<artboardVars, bgEditor>>
    /\ UNCHANGED videoCall

\* generateVideoFromFrames rejected
videoRejected(k, error) ==
    /\ k \in 1..Len(requests)
    /\ requests[k].kind = "video"
    /\ app' = [app EXCEPT !.errorMessage = getFriendlyErrorMessage(error),
                          !.appState = "ERROR"]
    /\ requests' = RemoveAt(requests, k)
    /\ UNCHANGED <<artboardVars, bgEditor>>
    /\ UNCHANGED videoCall

\* the close button of the error banner
dismissError ==
    /\ app.errorMessage # Null
    /\ app' = [app EXCEPT !.errorMessage = Null]
    /\ UNCHANGED <<artboardVars, bgEditor, requests>>
    /\ UNCHANGED videoCall

\* ----------------------------------------------- generateVideoFromFrames
\* what an operation object can report: done, an error, a download URI
Operations == [done : BOOLEAN, error : BOOLEAN, uri : BOOLEAN]

PollErrorMessage == "Video generation failed with code"
NoLinkMessage == "Video generation completed, but no download link was found."
VideoFailedMessage == "Failed to generate the animation. Please check the console for details."

\* the catch block: the two messages of the function itself are rethrown,
\* every other error is replaced
Thrown(message) ==
    [videoCall EXCEPT !.pc = "thrown",
                      !.outcome = IF message \in {PollErrorMessage, NoLinkMessage}
                                  THEN message ELSE VideoFailedMessage]

\* the loop condition, and after the loop the download link
AfterOperation(c) ==
    IF ~c.operation.done THEN [c EXCEPT !.pc = "setTimeout"]
    ELSE IF ~c.operation.uri
         THEN [c EXCEPT !.pc = "thrown", !.outcome = NoLinkMessage]
         ELSE [c EXCEPT !.pc = "fetch"]

\* the call, up to the await of generateVideos
generateVideoFromFrames ==
    /\ videoCall.pc = "idle"
    /\ videoCall' = [videoCall EXCEPT !.pc = "generateVideos"]
    /\ UNCHANGED <<artboardVars, app, bgEditor, requests>>

\* generateVideos resolved with the first operation object
generateVideosResolved(op) ==
    /\ videoCall.pc = "generateVideos"
    /\ videoCall' = AfterOperation([videoCall EXCEPT !.operation = op])
    /\ UNCHANGED <<artboardVars, app, bgEditor, requests>>

\* the 10 s timer of the loop body fired: getVideosOperation is called
pollTimerFired ==
    /\ videoCall.pc = "setTimeout"
    /\ videoCall' = [videoCall EXCEPT !.pc = "getVideosOperation"]
    /\ UNCHANGED <<artboardVars, app, bgEditor, requests>>

\* mutant: the error of a polled operation is not looked at
getVideosOperationResolvedIgnoringError(op) ==
    /\ videoCall.pc = "getVideosOperation"
    /\ (~op.done) => videoCall.polls + 1 < MaxPolls
    /\ videoCall' = AfterOperation([videoCall EXCEPT !.operation = op, !.polls = @ + 1])
    /\ UNCHANGED <<artboardVars, app, bgEditor, requests>>

\* getVideosOperation resolved with the polled operation object. The service
\* reports done or an error at the latest with poll number MaxPolls.
getVideosOperationResolved(op) ==
    /\ videoCall.pc = "getVideosOperation"
    /\ (~op.done /\ ~op.error) => videoCall.polls + 1 < MaxPolls
    /\ videoCall' = IF op.error
                    THEN [Thrown(PollErrorMessage) EXCEPT !.operation = op,
                                                          !.polls = @ + 1]
                    ELSE AfterOperation([videoCall EXCEPT !.operation = op,
                                                          !.polls = @ + 1])
    /\ UNCHANGED <<artboardVars, app, bgEditor, requests>>

\* an awaited promise rejected: generateVideos, getVideosOperation, fetch or blob
awaitRejected ==
    /\ videoCall.pc \in {"generateVideos", "getVideosOperation", "fetch", "blob"}
    /\ videoCall' = Thrown("network")
    /\ UNCHANGED <<artboardVars, app, bgEditor, requests>>

\* fetch of the download link resolved, with videoResponse.ok or without
fetchResolved(ok) ==
    /\ videoCall.pc = "fetch"
    /\ videoCall' = IF ok THEN [videoCall EXCEPT !.pc = "blob"]
                    ELSE Thrown("Failed to fetch video")
    /\ UNCHANGED <<artboardVars, app, bgEditor, requests>>

\* videoResponse.blob() resolved: the object URL is returned
blobResolved(url) ==
    /\ videoCall.pc = "blob"
    /\ videoCall' = [videoCall EXCEPT !.pc = "returned", !.outcome = url]
    /\ UNCHANGED <<artboardVars, app, bgEditor, requests>>

\* ---------------------------------------------------------- specification
Next ==
    \/ \E m \in InputModes : SetMode(m)
    \/ \E p \in DownPoints : startDrawing(p)
    \/ \E p \in MovePoints : draw(p)
    \/ stopDrawing
    \/ clearCanvas
    \/ handleUndo
    \/ handleRedo
    \/ restoreOnload
    \/ \E t \in PromptTexts : setPrompt(t)
    \/ handleGeneratePose
    \/ \E img \in GeneratedImages : poseResolved(img)
    \/ poseRejected
    \/ \E f \in UploadImages : handlePoseUpload(f)
    \/ \E k \in 1..MaxInFlight : readerLoadEnd(k)
    \/ \E k \in 1..MaxInFlight : poseImageOnload(k)

Spec == Init /\ [][Next]_vars

\* Drawing and the upload tab, with more files to pick from, among them the
\* picture the host exported from this canvas.
NextImport ==
    \/ \E m \in {"draw", "upload"} : SetMode(m)
    \/ \E p \in DownPoints : startDrawing(p)
    \/ \E p \in MovePoints : draw(p)
    \/ stopDrawing
    \/ clearCanvas
    \/ restoreOnload
    \/ \E f \in ImportFiles \cup {ExportedFile} : handlePoseUpload(f)
    \/ \E k \in 1..MaxInFlight : readerLoadEnd(k)
    \/ \E k \in 1..MaxInFlight : poseImageOnload(k)
    \/ \E k \in 1..MaxInFlight : poseImageOnerror(k)

SpecImport == Init /\ [][NextImport]_vars

\* The draw tab with its brush controls, and the way out of it and back.
NextBrush ==
    \/ \E p \in DownPoints : startDrawing(p)
    \/ \E p \in MovePoints : draw(p)
    \/ stopDrawing
    \/ clearCanvas
    \/ restoreOnload
    \/ \E c \in BrushColorChoices : setBrushColor(c)
    \/ \E z \in BrushSizeChoices : setBrushSize(z)
    \/ handleUndo
    \/ handleRedo
    \/ \E m \in {"draw", "upload"} : SetMode(m)

SpecBrush == Init /\ [][NextBrush]_vars

\* The whole page: App with its result panel and background editor, and of
\* the Artboard the prompt tab.
NextApp ==
    \/ \E img \in CharacterImages : onImageUpload(img)
    \/ handleReset
    \/ handleFrameGeneration
    \/ \E k \in 1..MaxRequests, img \in FrameResults : frameResolved(k, img)
    \/ \E k \in 1..MaxRequests, e \in ServiceErrors : frameRejected(k, e)
    \/ \E m \in {"prompt", "upload"} : editorSetMode(m)
    \/ \E t \in BackgroundPrompts : editorSetPrompt(t)
    \/ \E img \in BackgroundImages : editorHandleFileChange(img)
    \/ handleSubmit
    \/ \E k \in 1..MaxRequests, img \in BackgroundResults : backgroundResolved(k, img)
    \/ \E k \in 1..MaxRequests, e \in ServiceErrors : backgroundRejected(k, e)
    \/ handleCloseBgEditor
    \/ \E t \in AnimationPrompts : onAnimationPromptChange(t)
    \/ handleGenerateAiPrompt
    \/ \E k \in 1..MaxRequests, t \in DescribeResults : describeResolved(k, t)
    \/ \E k \in 1..MaxRequests, e \in ServiceErrors : describeRejected(k, e)
    \/ handleVideoGeneration
    \/ \E k \in 1..MaxRequests, url \in VideoResults : videoResolved(k, url)
    \/ \E k \in 1..MaxRequests, e \in ServiceErrors : videoRejected(k, e)
    \/ dismissError
    \/ restoreOnload
    \/ SetMode("prompt")
    \/ \E t \in PromptTexts : setPrompt(t)
    \/ handleGeneratePose
    \/ poseRejected

SpecApp == Init /\ [][NextApp]_vars

\* Strokes on the canvas, the frame generation that exports them and the
\* background step that follows it.
NextExport ==
    \/ \E p \in DownPoints : ~Covered /\ startDrawing(p)
    \/ \E p \in MovePoints : ~Covered /\ draw(p)
    \/ ~Covered /\ stopDrawing
    \/ restoreOnload
    \/ handleUndo
    \/ \E img \in CharacterImages : onImageUpload(img)
    \/ handleReset
    \/ handleFrameGeneration
    \/ \E k \in 1..MaxRequests, img \in FrameResults : frameResolved(k, img)
    \/ \E k \in 1..MaxRequests, e \in ServiceErrors : frameRejected(k, e)
    \/ handleCloseBgEditor
    \/ \E t \in BackgroundPrompts : editorSetPrompt(t)
    \/ handleSubmit
    \/ \E k \in 1..MaxRequests, img \in BackgroundResults : backgroundResolved(k, img)
    \/ \E k \in 1..MaxRequests, e \in ServiceErrors : backgroundRejected(k, e)

SpecExport == Init /\ [][NextExport]_vars

\* One call of generateVideoFromFrames against a service that answers every
\* await; no await is left pending for ever.
NextVideo ==
    \/ generateVideoFromFrames
    \/ \E op \in Operations : generateVideosResolved(op)
    \/ pollTimerFired
    \/ \E op \in Operations : getVideosOperationResolved(op)
    \/ awaitRejected
    \/ \E ok \in BOOLEAN : fetchResolved(ok)
    \/ \E url \in VideoResults : blobResolved(url)

SpecVideo == Init /\ [][NextVideo]_vars /\ WF_vars(NextVideo)

TypeOK ==
    /\ mode \in InputModes
    /\ isDrawing \in BOOLEAN
    /\ Len(history) <= MaxHistory
    /\ Len(restoreLoads) <= MaxRestoreLoads + MaxHistory
    /\ InFlight <= MaxInFlight


\* ------------------------------------------------------------- properties
BlankUrl == toDataURL(Blank)

\* a step that commits a snapshot: the end of an active stroke, or the
\* completion of a pose image load
StrokeCommit == isDrawing /\ stopDrawing
ImageLoadCommit == \E k \in 1..Len(poseLoads) : poseImageOnload(k)

\* the history a commit leaves when it prunes at the cursor of the state it
\* happens in and appends the surface it leaves
PrunedAndAppended ==
    /\ history' = Append(SubSeq(history, 1, historyIndex + 1), toDataURL(canvas'))
    /\ historyIndex' = Len(history') - 1

\* C1: in every reachable state the cursor is an index of the history:
\* 0 <= historyIndex <= history.length - 1.
C1_CursorInBounds ==
    /\ 0 <= historyIndex
    /\ historyIndex <= Len(history) - 1

\* an undo has moved the cursor inside a history that holds a loaded image
C1_Witness ==
    /\ Len(history) = 3
    /\ historyIndex = 1
    /\ \E n \in 1..Len(history) : history[n].data.img # NoImage

\* C2 (as claimed): every commit, by the end of a stroke or by a completed
\* image load, leaves history[0..cursor] of the state it happens in followed
\* by the new snapshot, with the cursor on that new last entry.
C2_CommitPrunesAtCurrentCursor ==
    [][(StrokeCommit \/ ImageLoadCommit) => PrunedAndAppended]_vars

\* C3 (as claimed): a commit made while the cursor is behind the last entry
\* (after an undo) leaves the cursor on the last entry, where handleRedo's
\* guard is false, and leaves nothing of what was ahead of the cursor: the
\* history is one entry longer than the kept prefix.
C3_RedoBranchPruned ==
    [][((StrokeCommit \/ ImageLoadCommit) /\ historyIndex < Len(history) - 1)
        => /\ historyIndex' = Len(history') - 1
           /\ Len(history') = historyIndex + 2]_vars


\* C4 (as claimed): when the image of a pose request completes after a clear
\* that ran while the service had not answered, and surface and history are
\* still those the clear left, the result is not applied: the surface stays
\* blank and the history stays the single blank entry with cursor 0.
C4_StaleResultDiscarded ==
    [][\A k \in 1..Len(poseLoads) :
          (/\ poseImageOnload(k)
           /\ poseLoads[k].origin = "prompt"
           /\ poseLoads[k].reset
           /\ canvas = Blank /\ history = <<BlankUrl>> /\ historyIndex = 0)
          => (canvas' = Blank /\ history' = <<BlankUrl>> /\ historyIndex' = 0)]_vars

\* C5 (as claimed): the commit of a pose request's image builds on the
\* history and the cursor that the undo, redo and stroke operations made
\* while the request was pending have produced.
C5_LoadBuildsOnCurrentHistory ==
    [][\A k \in 1..Len(poseLoads) :
          (poseImageOnload(k) /\ poseLoads[k].origin = "prompt")
          => /\ SubSeq(history', 1, Len(history') - 1)
                = SubSeq(history, 1, historyIndex + 1)
             /\ historyIndex' = historyIndex + 1]_vars

C7_BlankAtIndexZero ==
    /\ Len(history) >= 1
    /\ At(history, 0) = toDataURL(Blank)

\* after an undo and a new commit the first entry is still the blank one
C7_Witness ==
    /\ Len(history) = 3
    /\ At(history, 0).data = Blank
    /\ At(history, 1).data # Blank
    /\ At(history, 2).data # Blank

\* C8: a clear leaves a white surface and a history of exactly one blank
\* entry with cursor 0, whatever the state it is called in; called in the
\* state a clear has left, it leaves surface, history and cursor as they are.
C8_ClearResets ==
    [][clearCanvas =>
         /\ canvas' = Blank /\ history' = <<BlankUrl>> /\ historyIndex' = 0
         /\ (canvas = Blank /\ history = <<BlankUrl>> /\ historyIndex = 0)
               => UNCHANGED <<canvas, history, historyIndex>>]_vars

\* a clear has run on a history of several entries: work still in flight
\* remembers the longer history it was started on
C8_Witness ==
    /\ canvas = Blank /\ history = <<BlankUrl>> /\ historyIndex = 0
    /\ restoreLoads = <<BlankUrl>>
    /\ \/ poseRequest.active /\ Len(poseRequest.H) >= 2
       \/ \E k \in 1..Len(poseLoads) : Len(poseLoads[k].H) >= 2


\* C9: ending a stroke on the single blank entry gives two entries with the
\* cursor on the second, which is the snapshot of the drawn surface; undo
\* then moves the cursor to 0 and starts the load of the blank snapshot, redo
\* moves it back to 1 and starts the load of the stroke's snapshot, neither
\* changes the history, and the completed load shows the snapshot at the
\* cursor.
C9_StrokeUndoRedo ==
    [][/\ (StrokeCommit /\ history = <<BlankUrl>> /\ historyIndex = 0)
            => /\ Len(history') = 2 /\ historyIndex' = 1
               /\ At(history', 0) = BlankUrl
               /\ At(history', 1) = toDataURL(canvas)
       /\ (handleUndo /\ Len(history) = 2 /\ historyIndex = 1)
            => /\ historyIndex' = 0 /\ history' = history
               /\ restoreLoads' = Append(restoreLoads, BlankUrl)
       /\ (handleRedo /\ Len(history) = 2 /\ historyIndex = 0)
            => /\ historyIndex' = 1 /\ history' = history
               /\ restoreLoads' = Append(restoreLoads, At(history, 1))
       /\ (restoreOnload /\ Len(history) = 2 /\ Len(restoreLoads) = 1)
            => canvas' = At(history, historyIndex).data]_vars

\* stroke, undo, completed restore, then redo: the cursor is back on the
\* stroke's snapshot, whose load is pending over the blank surface
C9_Witness ==
    /\ Len(history) = 2
    /\ historyIndex = 1
    /\ At(history, 1).data.marks # {}
    /\ At(history, 1).data.img = NoImage
    /\ canvas = Blank
    /\ restoreLoads = <<At(history, 1)>>
    /\ ~isDrawing /\ ~poseRequest.active /\ poseLoads = <<>>

\* C10: undo with cursor > 0 moves the cursor back by exactly 1, leaves the
\* history as it is and starts the load of the snapshot at the new cursor,
\* which is what the surface shows when that load completes; undo with
\* cursor 0 changes nothing.
C10_UndoStepsBackOne ==
    [][/\ handleUndo =>
            IF historyIndex > 0
            THEN /\ historyIndex' = historyIndex - 1
                 /\ history' = history
                 /\ restoreLoads' = Append(restoreLoads, At(history, historyIndex - 1))
            ELSE UNCHANGED vars
       /\ restoreOnload => canvas' = Head(restoreLoads).data]_vars

\* an undo from the third entry has just run: the surface still shows the
\* third snapshot while the load of the second one is pending
C10_Witness ==
    /\ Len(history) = 3
    /\ historyIndex = 1
    /\ restoreLoads = <<At(history, 1)>>
    /\ canvas = At(history, 2).data
    /\ canvas # At(history, 1).data

\* C11: redo with the cursor before the last entry moves the cursor forward
\* by exactly 1, leaves the history as it is and starts the load of the
\* snapshot at the new cursor, which is what the surface shows when that load
\* completes; redo with the cursor on the last entry changes nothing.
C11_RedoStepsForwardOne ==
    [][/\ handleRedo =>
            IF historyIndex < Len(history) - 1
            THEN /\ historyIndex' = historyIndex + 1
                 /\ history' = history
                 /\ restoreLoads' = Append(restoreLoads, At(history, historyIndex + 1))
            ELSE UNCHANGED vars
       /\ (restoreOnload /\ Len(restoreLoads) = 1 /\ ~isDrawing)
            => toDataURL(canvas') = Head(restoreLoads)]_vars

\* a redo from the first entry of three has just run: the surface still
\* shows the blank first snapshot while the load of the second one is pending
C11_Witness ==
    /\ Len(history) = 3
    /\ historyIndex = 1
    /\ restoreLoads = <<At(history, 1)>>
    /\ canvas = Blank
    /\ At(history, 1).data # Blank
    /\ At(history, 2).data # At(history, 1).data

\* C12: at most one generatePoseFromPrompt call is awaited at any time; a
\* call is awaited exactly while isGeneratingPose is set, and while one is
\* awaited the Generate Pose button cannot start another, whatever the mode,
\* the prompt text and the history are.
C12_OneRequestInFlight ==
    /\ poseRequest.calls <= 1
    /\ poseRequest.active <=> (poseRequest.calls = 1)
    /\ poseRequest.active <=> isGeneratingPose
    /\ poseRequest.active => ~ENABLED <<handleGeneratePose>>_vars

\* a request is awaited while the prompt tab is shown with a non-empty prompt
\* after a stroke was committed: only the disabled button prevents a second one
C12_Witness ==
    /\ poseRequest.active
    /\ mode = "prompt"
    /\ prompt # ""
    /\ poseLoads = <<>>
    /\ Len(history) = 2
    /\ historyIndex = 1
    /\ poseRequest.c = 0

\* C13: when generatePoseFromPrompt fails, the error message of the service
\* is set, and the surface, the history, the cursor and the image loads in
\* flight are what they were before the failure arrived.
C13_FailureLeavesCanvas ==
    [][poseRejected =>
        /\ errorMessage' = PoseFailedMessage
        /\ errorMessage' # Null
        /\ canvas' = canvas
        /\ history' = history
        /\ historyIndex' = historyIndex
        /\ restoreLoads' = restoreLoads
        /\ poseLoads' = poseLoads]_vars

\* a request made after a committed stroke has failed: the message is shown
\* and the stroke is still on the surface and in the history
C13_Witness ==
    /\ errorMessage = PoseFailedMessage
    /\ ~poseRequest.active
    /\ ~isGeneratingPose
    /\ Len(history) = 2
    /\ historyIndex = 1
    /\ canvas = At(history, 1).data
    /\ canvas.marks # {}

\* C14: when the picked file cannot be decoded, an error is signalled, the
\* surface is left as it was and no history entry is committed.
C14_DecodeErrorSignalled ==
    [][(\E k \in 1..Len(poseLoads) : poseImageOnerror(k)) =>
        /\ errorMessage' # Null
        /\ canvas' = canvas
        /\ history' = history
        /\ historyIndex' = historyIndex]_vars

\* C15: isDrawing becomes true only by startDrawing and false only by
\* stopDrawing, the last pen position is set exactly while isDrawing, and
\* while no stroke is active neither draw nor stopDrawing changes anything.
C15_StrokeActiveOnlyBetweenStartAndEnd ==
    [][/\ (~isDrawing /\ isDrawing') => \E p \in DownPoints : startDrawing(p)
       /\ (isDrawing /\ ~isDrawing') => stopDrawing
       /\ isDrawing' <=> (lastPoint' # NoPoint)
       /\ ~isDrawing => /\ ~(\E p \in MovePoints : draw(p))
                        /\ ~stopDrawing]_vars

\* a stroke was drawn and has ended in the draw tab, with room in the history:
\* mouse moves and mouse-ups arrive with no active stroke
C15_Witness ==
    /\ ~isDrawing
    /\ lastPoint = NoPoint
    /\ mode = "draw"
    /\ Len(history) = 2
    /\ historyIndex = 1
    /\ At(history, 1).data.marks # {}
    /\ restoreLoads = <<>>

\* C16: in the upload and prompt tabs a mouse-down on the canvas changes
\* nothing: no stroke becomes active, no pen position is recorded, and the
\* surface, the history and the cursor stay as they are.
C16_StartIgnoredOutsideDrawMode ==
    [][mode # "draw" => ~(\E p \in DownPoints : startDrawing(p))]_vars

\* the upload tab is shown, no stroke is active and the history has room for
\* a stroke: a mouse-down would start one in the draw tab
C16_Witness ==
    /\ mode = "upload"
    /\ ~isDrawing
    /\ lastPoint = NoPoint
    /\ historyIndex + 2 <= MaxHistory
    /\ Len(history) = 2
    /\ restoreLoads = <<>>

\* C18: a clear while a stroke is active abandons the stroke: afterwards no
\* stroke is active and no pen position is set.
C18_ClearAbandonsStroke ==
    [][(clearCanvas /\ isDrawing) => (~isDrawing' /\ lastPoint' = NoPoint)]_vars

\* C17: everything a mouse-move paints has the colour and the width that
\* were in force at the mouse-down of its stroke.
C17_BrushFixedAtStrokeStart ==
    [][(\E p \in MovePoints : draw(p)) =>
        \A m \in canvas'.marks \ canvas.marks :
            /\ m.color = strokeBrush.color
            /\ m.width = strokeBrush.width]_vars

\* C19: a loaded picture of size w x h is drawn with its aspect ratio kept
\* and centred on both axes, inside the canvas: with canvas aspect > picture
\* aspect the drawn height is the canvas height and the width is scaled in
\* proportion, otherwise the drawn width is the canvas width and the height is
\* scaled in proportion.  A 100 x 200 picture is drawn 128 wide and 256 high
\* with white bars of 192 on the left and on the right.
C19_LetterBoxCentred ==
    [][\A k \in 1..Len(poseLoads) :
        (poseImageOnload(k) /\ IsRaw(poseLoads[k].img)) =>
            LET w == poseLoads[k].img.width
                h == poseLoads[k].img.height
                i == canvas'.img
                fitHeight == CanvasWidth * h > w * CanvasHeight
            IN /\ i.px = poseLoads[k].img.px.img.px
               /\ canvas'.marks = {}
               /\ fitHeight => /\ i.dh = <<CanvasHeight, 1>>
                               /\ i.dw[1] * h = CanvasHeight * w * i.dw[2]
               /\ ~fitHeight => /\ i.dw = <<CanvasWidth, 1>>
                                /\ i.dh[1] * w = CanvasWidth * h * i.dh[2]
               /\ 2 * i.dx[1] * i.dw[2] + i.dw[1] * i.dx[2]
                    = CanvasWidth * i.dx[2] * i.dw[2]
               /\ 2 * i.dy[1] * i.dh[2] + i.dh[1] * i.dy[2]
                    = CanvasHeight * i.dy[2] * i.dh[2]
               /\ i.dx[1] >= 0 /\ i.dy[1] >= 0
               /\ i.dw[1] <= CanvasWidth * i.dw[2]
               /\ i.dh[1] <= CanvasHeight * i.dh[2]
               /\ (w = 100 /\ h = 200) =>
                    /\ i.dw = <<128, 1>> /\ i.dh = <<256, 1>>
                    /\ i.dx = <<192, 1>> /\ i.dy = <<0, 1>>
                    /\ CanvasWidth - 192 - 128 = 192]_vars

\* the 100 x 200 picture has been loaded and committed
C19_Witness ==
    /\ canvas.img = [px |-> "uploadA", dx |-> <<192, 1>>, dy |-> <<0, 1>>,
                     dw |-> <<128, 1>>, dh |-> <<256, 1>>]
    /\ canvas.marks = {}
    /\ At(history, historyIndex).data = canvas

\* C20: a picture exported from the canvas, or any picture of the canvas
\* size, that is loaded back is drawn unscaled over the whole canvas: the
\* surface has the picture's pixels, and exporting it again gives the picture.
C20_ExportImportRoundTrip ==
    [][\A k \in 1..Len(poseLoads) :
        (/\ poseImageOnload(k)
         /\ \/ ~IsRaw(poseLoads[k].img)
            \/ /\ poseLoads[k].img.width = CanvasWidth
               /\ poseLoads[k].img.height = CanvasHeight)
        => /\ canvas' = poseLoads[k].img.px
           /\ DecodeImage(toDataURL(canvas')) = poseLoads[k].img]_vars

\* a stroke was exported, the canvas was cleared and the export was loaded
\* back: the stroke is on the surface again while the restore of the blank
\* snapshot started by the clear is still pending
C20_Witness ==
    /\ Len(history) = 3
    /\ historyIndex = 2
    /\ canvas = At(history, 2).data
    /\ canvas.marks # {}
    /\ restoreLoads = <<BlankUrl, At(history, 2)>>

\* C22: the history changes only when a stroke ends, when a picture load
\* completes or when the canvas is cleared; mouse-down, mouse-move, undo, redo
\* and the brush buttons leave it as it is, and a mode tab leaves the history,
\* the surface and the cursor as they are.
C22_HistoryChangesOnlyOnCommitOrClear ==
    [][/\ history' # history => (StrokeCommit \/ ImageLoadCommit \/ clearCanvas)
       /\ (\/ \E p \in DownPoints : startDrawing(p)
           \/ \E p \in MovePoints : draw(p)
           \/ handleUndo
           \/ handleRedo
           \/ \E c \in BrushColorChoices : setBrushColor(c)
           \/ \E z \in BrushSizeChoices : setBrushSize(z)) => history' = history
       /\ (\E m \in InputModes : SetMode(m)) =>
             /\ history' = history
             /\ canvas' = canvas
             /\ historyIndex' = historyIndex]_vars

\* two strokes with different brushes were committed, one was undone, and
\* the upload tab is shown: all three entries are still there
C22_Witness ==
    /\ Len(history) = 3
    /\ historyIndex = 1
    /\ mode = "upload"
    /\ brushColor = COLORS[2]
    /\ brushSize = BrushLarge
    /\ At(history, 2).data # At(history, 1).data
    /\ At(history, 1).data # Blank

\* C23: with an empty prompt the Generate Pose handler starts no request and
\* changes nothing: no pending flag, no error message, no surface or history
\* change.
C23_EmptyPromptIssuesNothing ==
    [][prompt = "" => ~handleGeneratePose]_vars

\* the prompt tab is shown with an empty prompt after a failed request, no
\* request is pending and the history has room for a picture
C23_Witness ==
    /\ mode = "prompt"
    /\ prompt = ""
    /\ ~isGeneratingPose
    /\ errorMessage = PoseFailedMessage
    /\ poseLoads = <<>>
    /\ historyIndex + 2 <= MaxHistory

\* C25: a mouse-up on an active stroke makes the stroke inactive, clears the
\* pen position and commits exactly one entry after the entries up to the
\* cursor, also when the stroke has no segment (a click without a drag).
C25_EndStrokeCommitsOneEntry ==
    [][StrokeCommit =>
        /\ ~isDrawing'
        /\ lastPoint' = NoPoint
        /\ PrunedAndAppended
        /\ Len(history') = historyIndex + 2]_vars

\* a click without a drag on the blank canvas has been committed: the second
\* entry is a blank snapshot as well
C25_Witness ==
    /\ history = <<BlankUrl, BlankUrl>>
    /\ historyIndex = 1
    /\ ~isDrawing
    /\ lastPoint = NoPoint
    /\ canvas = Blank

\* C26: a mouse-down in the draw tab makes a stroke active and records its
\* point as the pen position, leaving history, cursor and surface as they
\* are; a mouse-move on an active stroke in the draw tab moves the pen
\* position to its point and leaves history and cursor as they are.
C26_PenPositionFollowsPointer ==
    [][/\ \A p \in DownPoints : (startDrawing(p) /\ mode = "draw") =>
            /\ isDrawing'
            /\ lastPoint' = p
            /\ history' = history
            /\ historyIndex' = historyIndex
            /\ canvas' = canvas
       /\ \A p \in MovePoints : (draw(p) /\ isDrawing /\ mode = "draw") =>
            /\ isDrawing'
            /\ lastPoint' = p
            /\ history' = history
            /\ historyIndex' = historyIndex]_vars

\* a stroke is active and a mouse-move has painted its segment: the pen is
\* at the point of the move
C26_Witness ==
    /\ isDrawing
    /\ Len(path.segs) = 1
    /\ lastPoint \in MovePoints
    /\ lastPoint \notin DownPoints
    /\ canvas.marks # {}
    /\ history = <<BlankUrl>>

\* C27: the Undo button is enabled exactly when cursor > 0 and the Redo
\* button exactly when cursor < length - 1; a step of the undo or redo
\* handler that changes anything is taken with its button enabled and
\* changes the cursor, and with the button disabled the handler's guard is
\* false.
C27_ControlsMatchGuards ==
    [][/\ ~UndoDisabled <=> historyIndex > 0
       /\ ~RedoDisabled <=> historyIndex < Len(history) - 1
       /\ handleUndo => (~UndoDisabled /\ historyIndex' # historyIndex)
       /\ handleRedo => (~RedoDisabled /\ historyIndex' # historyIndex)]_vars

\* the cursor is in the middle of three entries in the draw tab: both
\* buttons are enabled
C27_Witness ==
    /\ mode = "draw"
    /\ Len(history) = 3
    /\ historyIndex = 1
    /\ ~UndoDisabled
    /\ ~RedoDisabled
    /\ restoreLoads = <<>>

\* C28: starting a request sets isGeneratingPose and clears the error message;
\* the flag is set exactly while the call is awaited, it is cleared when the
\* call settles, with a result or with a failure, and by nothing else.
C28_PendingFlagFollowsRequest ==
    [][/\ handleGeneratePose => (isGeneratingPose' /\ errorMessage' = Null)
       /\ (\E img \in GeneratedImages : poseResolved(img)) => ~isGeneratingPose'
       /\ poseRejected => ~isGeneratingPose'
       /\ (isGeneratingPose /\ ~isGeneratingPose') =>
             (poseRejected \/ \E img \in GeneratedImages : poseResolved(img))
       /\ isGeneratingPose' <=> poseRequest'.active]_vars

\* a request is awaited while the draw tab is shown and a stroke was
\* committed after the request was made
C28_Witness ==
    /\ isGeneratingPose
    /\ poseRequest.active
    /\ errorMessage = Null
    /\ mode = "draw"
    /\ Len(history) = 2
    /\ Len(poseRequest.H) = 1

\* C21: getImageData is a pure read. A frame generation, the one caller of
\* getImageData, sends the encoding of the surface as it is at that moment
\* and leaves every variable of the Artboard (surface, history, cursor,
\* stroke state, mode) as it is, also while a stroke is active.
C21_ExportIsPureRead ==
    [][handleFrameGeneration =>
        /\ UNCHANGED artboardVars
        /\ Len(requests') = Len(requests) + 1
        /\ requests'[Len(requests')].kind = "frame"
        /\ requests'[Len(requests')].poseImage = toDataURL(canvas)]_vars

\* a frame generation was started while a stroke was active and had painted
\* a segment that is not committed: the pose that was sent shows the segment
C21_Witness ==
    /\ Len(requests) = 1
    /\ requests[1].kind = "frame"
    /\ requests[1].poseImage.data.marks # {}
    /\ requests[1].poseImage = toDataURL(canvas)
    /\ isDrawing
    /\ history = <<BlankUrl>>

\* the service calls that are awaited, by App and by the Artboard
PendingCalls == Len(requests) + poseRequest.calls

\* C24: at most one call to the generative service is awaited at a time,
\* counting frame generation, background update, video generation, prompt
\* suggestion and pose generation.
C24_SingleRequestInFlight == PendingCalls <= 1

\* C29: an end frame exists only if a start frame exists.
C29_EndFrameImpliesStartFrame ==
    app.endFrameImage # Null => app.startFrameImage # Null

\* C30: whenever the background editor is open, editingFrame is 'start' or
\* 'end' and the frame it names is not null.
C30_OpenEditorNamesAFrame ==
    app.isBgEditorOpen =>
        /\ app.editingFrame \in {"start", "end"}
        /\ app.editingFrame = "start" => app.startFrameImage # Null
        /\ app.editingFrame = "end" => app.endFrameImage # Null

\* C31: a frame generation calls the image-edit service only when a
\* character image is uploaded and a pose has been drawn on the canvas.
C31_FrameCallNeedsCharacterAndPose ==
    [][(handleFrameGeneration /\ requests' # requests) =>
        /\ app.uploadedImage # Null
        /\ getImageData # BlankUrl]_vars

\* the calls that show the Loader while they are awaited
LoaderKinds == {"frame", "background", "video"}

\* a frame generation, background update or video generation settles
LoaderCallSettles ==
    \/ \E k \in 1..MaxRequests, img \in FrameResults : frameResolved(k, img)
    \/ \E k \in 1..MaxRequests, e \in ServiceErrors : frameRejected(k, e)
    \/ \E k \in 1..MaxRequests, img \in BackgroundResults : backgroundResolved(k, img)
    \/ \E k \in 1..MaxRequests, e \in ServiceErrors : backgroundRejected(k, e)
    \/ \E k \in 1..MaxRequests, url \in VideoResults : videoResolved(k, url)
    \/ \E k \in 1..MaxRequests, e \in ServiceErrors : videoRejected(k, e)

\* C32: appState is GENERATING_IMAGE or GENERATING_VIDEO only while a frame
\* generation, background update or video generation is awaited, and the
\* step in which such a call settles, with a result or a failure, leaves the
\* loading state, whatever else is pending.
C32_LoadingEndsWhenCallSettles ==
    [][/\ isLoading => \E k \in 1..Len(requests) : requests[k].kind \in LoaderKinds
       /\ LoaderCallSettles => ~isLoading']_vars

\* a video generation was started and has failed: nothing is awaited and the
\* Loader is gone
C32_Witness ==
    /\ app.appState = "ERROR"
    /\ app.loadingMessage = "Generating animation from prompt..."
    /\ app.errorMessage = "quota exceeded"
    /\ app.generatedVideoUrl = Null
    /\ requests = <<>>

\* C33: a failed background update leaves both frames and the Artboard as
\* they are and sets the error message; after a background update, failed or
\* not, editingFrame is null and appState is IMAGE_READY, not ERROR.
C33_FailedBackgroundUpdate ==
    [][/\ (\E k \in 1..MaxRequests, e \in ServiceErrors : backgroundRejected(k, e)) =>
            /\ app'.startFrameImage = app.startFrameImage
            /\ app'.endFrameImage = app.endFrameImage
            /\ app'.errorMessage \in {getFriendlyErrorMessage(e) : e \in ServiceErrors}
            /\ UNCHANGED artboardVars
            /\ app'.editingFrame = Null
            /\ app'.appState = "IMAGE_READY"
       /\ (\E k \in 1..MaxRequests, img \in BackgroundResults :
                backgroundResolved(k, img)) =>
            /\ app'.editingFrame = Null
            /\ app'.appState = "IMAGE_READY"]_vars

\* the background update of the start frame has failed: the frame is the
\* generated one, the stroke is still on the canvas, the message is shown
C33_Witness ==
    /\ app.appState = "IMAGE_READY"
    /\ app.errorMessage = "quota exceeded"
    /\ app.editingFrame = Null
    /\ app.startFrameImage \in FrameResults
    /\ bgEditor.prompt # ""
    /\ canvas.marks # {}
    /\ Len(history) = 2
    /\ requests = <<>>

\* C34: the Animate It! handler calls the video service only with a start
\* frame and a non-empty prompt, else it sets the message and ERROR without a
\* call; a result sets generatedVideoUrl and VIDEO_READY, a failure sets
\* ERROR and leaves generatedVideoUrl as it is.
C34_VideoGeneration ==
    [][/\ handleVideoGeneration =>
            IF app.startFrameImage = Null \/ app.animationPrompt = ""
            THEN /\ requests' = requests
                 /\ app'.appState = "ERROR"
                 /\ app'.errorMessage = MissingPromptMessage
            ELSE /\ Len(requests') = Len(requests) + 1
                 /\ requests'[Len(requests')].kind = "video"
                 /\ app'.appState = "GENERATING_VIDEO"
       /\ \A k \in 1..MaxRequests, url \in VideoResults : videoResolved(k, url) =>
            /\ app'.appState = "VIDEO_READY"
            /\ app'.generatedVideoUrl = url
       /\ \A k \in 1..MaxRequests, e \in ServiceErrors : videoRejected(k, e) =>
            /\ app'.appState = "ERROR"
            /\ app'.generatedVideoUrl = app.generatedVideoUrl]_vars

\* a video generation has resolved
C34_Witness ==
    /\ app.appState = "VIDEO_READY"
    /\ app.generatedVideoUrl \in VideoResults
    /\ app.animationPrompt # ""
    /\ app.startFrameImage # Null
    /\ requests = <<>>

\* the Artboard right after initializeCanvas
Cleared == canvas = Blank /\ history = <<BlankUrl>> /\ historyIndex = 0

\* C35: closing the editor of the start frame and a successful background
\* update of the start frame clear the Artboard (blank surface, one history
\* entry); closing the editor of the end frame and a background update of
\* the end frame, successful or not, leave the Artboard as it is.
C35_StartFrameStepClearsArtboard ==
    [][/\ (handleCloseBgEditor /\ app.editingFrame = "start") => Cleared'
       /\ (handleCloseBgEditor /\ app.editingFrame = "end") => UNCHANGED artboardVars
       /\ \A k \in 1..MaxRequests, img \in BackgroundResults :
            backgroundResolved(k, img) =>
                IF requests[k].frame = "start" THEN Cleared'
                ELSE UNCHANGED artboardVars
       /\ \A k \in 1..MaxRequests, e \in ServiceErrors :
            (backgroundRejected(k, e) /\ requests[k].frame = "end") =>
                UNCHANGED artboardVars]_vars

\* the background of the start frame was replaced and the Artboard is clear
\* for the end pose, its restore load still pending
C35_Witness ==
    /\ app.startFrameImage \in BackgroundResults
    /\ app.endFrameImage = Null
    /\ app.appState = "IMAGE_READY"
    /\ app.editingFrame = Null
    /\ Cleared
    /\ restoreLoads # <<>>
    /\ requests = <<>>

\* C36: Start Over sets appState to IDLE, the error message, uploaded image,
\* start frame, end frame and video URL to null, the animation prompt to
\* empty, closes the background editor, sets editingFrame to null and clears
\* the Artboard to one blank history entry.
C36_StartOverResets ==
    [][handleReset =>
        /\ app'.appState = "IDLE"
        /\ app'.errorMessage = Null
        /\ app'.uploadedImage = Null
        /\ app'.startFrameImage = Null
        /\ app'.endFrameImage = Null
        /\ app'.generatedVideoUrl = Null
        /\ app'.animationPrompt = ""
        /\ ~app'.isBgEditorOpen
        /\ app'.editingFrame = Null
        /\ Cleared']_vars

\* Start Over was pressed while a frame generation that sent a drawn pose
\* was awaited
C36_Witness ==
    /\ app.appState = "IDLE"
    /\ app.uploadedImage = Null
    /\ app.startFrameImage = Null
    /\ ~app.isBgEditorOpen
    /\ app.loadingMessage = "Generating Start Frame..."
    /\ Len(requests) = 1
    /\ requests[1].poseImage.data.marks # {}
    /\ Cleared

\* C37: the response of a prompt suggestion that was awaited when Start Over
\* was pressed changes neither the animation prompt nor the error message
\* nor appState.
C37_StaleSuggestionDiscarded ==
    [][\A k \in 1..MaxRequests :
          (/\ \/ \E t \in DescribeResults : describeResolved(k, t)
              \/ \E e \in ServiceErrors : describeRejected(k, e)
           /\ requests[k].reset) =>
                /\ app'.animationPrompt = app.animationPrompt
                /\ app'.errorMessage = app.errorMessage
                /\ app'.appState = app.appState]_vars

\* the call of generateVideoFromFrames has returned or thrown
VideoCallOver == videoCall.pc \in {"returned", "thrown"}

\* C38: generateVideoFromFrames polls while the operation is not done; a
\* polled operation with an error makes it throw at once; a polled operation
\* without error that is not done is followed by another wait, whatever the
\* number of polls so far; it returns a URL only for an operation that is
\* done and has a download URI, after the fetch of the URI succeeded; and
\* with a service that reports done or an error at some poll, the call
\* returns or throws.
C38_PollsUntilDoneOrError ==
    /\ [][\A op \in Operations : getVideosOperationResolved(op) =>
            /\ videoCall'.polls = videoCall.polls + 1
            /\ op.error => (/\ videoCall'.pc = "thrown"
                            /\ videoCall'.outcome = PollErrorMessage)
            /\ (~op.error /\ ~op.done) => videoCall'.pc = "setTimeout"]_vars
    /\ [][(videoCall'.pc = "blob" /\ videoCall.pc # "blob") => fetchResolved(TRUE)]_vars
    /\ [][(videoCall'.pc = "returned" /\ videoCall.pc # "returned") =>
            videoCall.pc = "blob"]_vars
    /\ [](videoCall.pc \in {"setTimeout", "getVideosOperation"} =>
            ~videoCall.operation.done)
    /\ [](videoCall.pc = "returned" =>
            /\ videoCall.operation.done
            /\ videoCall.operation.uri
            /\ videoCall.outcome \in VideoResults)
    /\ (videoCall.pc = "generateVideos") ~> VideoCallOver

\* the call has returned a URL after the largest number of polls the bound
\* allows
C38_Witness ==
    /\ videoCall.pc = "returned"
    /\ videoCall.polls = MaxPolls
    /\ videoCall.outcome \in VideoResults

====
